---------------------------- MODULE Spec2Model ----------------------------
(***************************************************************************)
(* A model of dipy/align/bundlemin.pyx: the MDF (minimum average direct    *)
(* flip) distance between two streamlines, the two routines that fill the  *)
(* static x moving distance matrix, and the bundle-minimum-distance        *)
(* reduction that keeps running row and column minima behind one OpenMP    *)
(* lock.                                                                   *)
(*                                                                         *)
(* Numbers.  A C double is modelled by the exact value it holds, written   *)
(* as a reduced fraction <<n, d>> with d > 0.  Coordinates are integers    *)
(* and the points are chosen so that every sqrt the code takes is the root *)
(* of a perfect square.  A double holds every integer below 2^53 and, from *)
(* 2^53 on, only every second, fourth, ... integer: the running sums of    *)
(* lines 67-68 are rounded to such a double (to the nearest, ties to the   *)
(* even mantissa) after every addition.  2^53 does not fit the integers of *)
(* the model checker, so inside min_direct_flip_dist an integer is written *)
(* in two digits: h * Big + l, with 0 <= l < Big, stands for the double    *)
(* h * 2^53 + l, and Big * Big for 2^106.  An integer below Big stands for *)
(* itself.  Over the point pool no value reaches Big, nothing is rounded   *)
(* in lines 59-68, and the model's result is the real number the code's    *)
(* double approximates: that double exactly when rows, static_size and     *)
(* moving_size are powers of two.  The rounding of the divisions and of    *)
(* the sums outside min_direct_flip_dist is not modelled.  <<1, 0>> stands *)
(* for np.finfo('f8').max, the sentinel the code calls inf: it is greater  *)
(* than every value the model computes and absorbs every such value added  *)
(* to it.  <<0, 0>> stands for NaN.                                        *)
(*                                                                         *)
(* Scheduling.  A prange hands the iterations of the outer loop to the     *)
(* workers of the team in any order, which covers every OpenMP schedule.   *)
(* The prange nested in _bundle_minimum_distance_matrix is run by the      *)
(* worker that owns the row.  Each statement of a worker is one step.      *)
(***************************************************************************)
(***************************************************************************)
(* Definitions introduced as "faulty variant" are not part of the model:   *)
(* each replaces the definition that follows it to show that a property    *)
(* depends on that definition.                                             *)
(***************************************************************************)
EXTENDS Integers, Sequences, FiniteSets, TLC

VARIABLES
    HAVE_OPENMP,    \* build flag of build/config.pxi: compiled with OpenMP
    nthreads,       \* size of the OpenMP team running a prange
    streamlines_a,  \* caller's static set: a sequence of streamlines
    streamlines_b,  \* caller's moving set
    op,             \* entry point being executed, or "idle"
    pc,             \* position of the calling thread inside that entry point
    wk,             \* per worker: position and private variables i, j, tmp
    todo,           \* prange iterations (rows i) not yet given to a worker
    lock,           \* [st |-> "none" | "init" | "destroyed", owner |-> 0 | w]
    min_j,          \* scratch: per static row, minimum over moving
    min_i,          \* scratch: per moving row, minimum over static
    D,              \* the distance matrix being filled
    loc,            \* locals of the calling thread: i, j, sum_i, sum_j
    heap,           \* buffers allocated by the running call and still owned
    ret,            \* what the last calls returned or raised
    evals,          \* min_direct_flip_dist evaluations made by the running call
    hist,           \* history of the running call (writes, lock use)
    pd              \* results of the direct calls of min_direct_flip_dist

vars == <<HAVE_OPENMP, nthreads, streamlines_a, streamlines_b, op, pc, wk,
          todo, lock, min_j, min_i, D, loc, heap, ret, evals, hist, pd>>

(***************************************************************************)
(* Bounds of the model.                                                    *)
(***************************************************************************)
MaxRows == 2
MaxStatic == 2
MaxMoving == 2
MaxWorkers == 2
\* points of the streamlines whose sums are rounded
RoundingRows == 3

(***************************************************************************)
(* Exact arithmetic on the values doubles hold.                            *)
(***************************************************************************)
Abs(x) == IF x < 0 THEN -x ELSE x

RECURSIVE Gcd(_, _)
Gcd(x, y) == IF y = 0 THEN x ELSE Gcd(y, x % y)

Norm(n, d) ==
    IF d = 0 THEN (IF n > 0 THEN <<1, 0>> ELSE IF n < 0 THEN <<-1, 0>> ELSE <<0, 0>>)
    ELSE LET s == IF d < 0 THEN -1 ELSE 1
             g == Gcd(Abs(n), Abs(d))
         IN  <<(s * n) \div g, (s * d) \div g>>

Dbl(k) == <<k, 1>>
Zero == Dbl(0)
IsNaN(x) == x = <<0, 0>>
Lt(x, y) == ~IsNaN(x) /\ ~IsNaN(y) /\ x # y /\ x[1] * y[2] < y[1] * x[2]
Le(x, y) == ~IsNaN(x) /\ ~IsNaN(y) /\ (x = y \/ x[1] * y[2] < y[1] * x[2])
\* the sum of two infinities of the same sign is that infinity
Add(x, y) ==
    IF x[2] = 0 /\ y[2] = 0 THEN (IF x = y THEN x ELSE <<0, 0>>)
    ELSE Norm(x[1] * y[2] + y[1] * x[2], x[2] * y[2])
Mul(x, y) == Norm(x[1] * y[1], x[2] * y[2])
Div(x, y) == Norm(x[1] * y[2], x[2] * y[1])

\* libc sqrt, on the perfect squares the inputs produce
sqrt(x) == CHOOSE r \in 0..x : r * r = x

\* double inf = np.finfo('f8').max
inf == <<1, 0>>

\* the written form of 2^53, the first double whose successor is not the
\* next integer: a double has a mantissa of 53 bits
Big == 256

\* the distance between two neighbouring doubles from h * 2^53 on, for
\* h >= 1: 2 up to 2^54, 4 up to 2^55, ...
RECURSIVE Ulp(_)
Ulp(h) == IF h <= 1 THEN 2 ELSE 2 * Ulp(h \div 2)

\* the double that an operation with the exact result x >= 0 stores: x below
\* 2^53, else the nearest multiple of Ulp, and of two nearest ones the one
\* with the even mantissa.  x is h * Big + l with l + Ulp(h) <= Big: the sum
\* of a few distances, each a small integer or 2^53
RoundDouble(x) ==
    LET h == x \div Big
        l == x % Big
        u == Ulp(h)
        q == l \div u
        r == l % u
    IN  IF h = 0 THEN x
        ELSE IF 2 * r < u THEN h * Big + q * u
        ELSE IF 2 * r > u THEN h * Big + (q + 1) * u
        ELSE h * Big + (IF q % 2 = 0 THEN q ELSE q + 1) * u

(***************************************************************************)
(* Memory.  A buffer of doubles is a sequence; a pointer into it is the    *)
(* buffer seen from an offset, indexed from 0 as in C.                     *)
(***************************************************************************)
Ptr(buf, off) == [k \in 0..(Len(buf) - off - 1) |-> buf[off + k + 1]]

(***************************************************************************)
(* min_direct_flip_dist: the loops of lines 59-68, then 70-75.             *)
(***************************************************************************)
RECURSIVE InnerLoop(_, _, _, _, _, _, _)
InnerLoop(a, b, rows, i, j, tmprow, tmprowf) ==
    IF j = 3 THEN <<tmprow, tmprowf>>
    ELSE LET sub  == a[i * 3 + j] - b[i * 3 + j]
             subf == a[i * 3 + j] - b[(rows - 1 - i) * 3 + j]
         IN  InnerLoop(a, b, rows, i, j + 1,
                       tmprow + sub * sub, tmprowf + subf * subf)

RECURSIVE OuterLoop(_, _, _, _, _, _)
OuterLoop(a, b, rows, i, dist, distf) ==
    IF i >= rows THEN <<dist, distf>>
    ELSE LET t == InnerLoop(a, b, rows, i, 0, 0, 0)
         IN  OuterLoop(a, b, rows, i + 1,
                       RoundDouble(dist + sqrt(t[1])),
                       RoundDouble(distf + sqrt(t[2])))

\* faulty variant of min_direct_flip_dist: the direct mean alone
MdfDirectOnly(a, b, rows) ==
    LET s == OuterLoop(a, b, rows, 0, 0, 0)
    IN  Div(Dbl(s[1]), Dbl(rows))

\* faulty variant of min_direct_flip_dist: the difference of the two means
\* where the direct mean should be returned
MdfDifference(a, b, rows) ==
    LET s     == OuterLoop(a, b, rows, 0, 0, 0)
        dist  == Div(Dbl(s[1]), Dbl(rows))
        distf == Div(Dbl(s[2]), Dbl(rows))
    IN  IF Le(dist, distf) THEN Add(dist, Mul(Dbl(-1), distf)) ELSE distf

\* faulty variant of min_direct_flip_dist: the comparison of line 72 reversed,
\* so that the larger of the two means is returned
MdfLarger(a, b, rows) ==
    LET s     == OuterLoop(a, b, rows, 0, 0, 0)
        dist  == Div(Dbl(s[1]), Dbl(rows))
        distf == Div(Dbl(s[2]), Dbl(rows))
    IN  IF Le(distf, dist) THEN dist ELSE distf

min_direct_flip_dist(a, b, rows) ==
    LET s     == OuterLoop(a, b, rows, 0, 0, 0)
        dist  == Div(Dbl(s[1]), Dbl(rows))
        distf == Div(Dbl(s[2]), Dbl(rows))
    IN  IF Le(dist, distf) THEN dist ELSE distf

(***************************************************************************)
(* Inputs.  A streamline is an (N, 3) array: a sequence of N points.  Any  *)
(* two points of the pool are at an integer distance (0, 3, 4, 5 or 6).    *)
(***************************************************************************)
\* no value: nothing returned, nothing stored
None == <<>>
NoError == "none"

Points == <<  <<0, 0, 0>>, <<3, 0, 0>>, <<0, 4, 0>>, <<-3, 0, 0>> >>

\* t.shape[0]: the number of points of a streamline
NPoints(t) == Len(t)

\* np.ascontiguousarray(t, dtype=f64_dt): the row-major buffer of the 3 N
\* coordinates of t, as doubles
ascontiguousarray(t) == [k \in 1..(3 * Len(t)) |-> t[((k - 1) \div 3) + 1][((k - 1) % 3) + 1]]

\* every streamline of r points over the pool
Streamlines(r) == {[i \in 1..r |-> Points[f[i]]] : f \in [1..r -> 1..Len(Points)]}

\* the streamline with the points of t in the opposite order
Reverse(t) == [i \in 1..Len(t) |-> t[Len(t) + 1 - i]]

\* a pointer to the first coordinate of streamline t
Data(t) == Ptr(ascontiguousarray(t), 0)

Workers == 1..MaxWorkers
Team == 1..nthreads

IdleWorker == [pc |-> "off", i |-> 0, j |-> 0, tmp |-> Zero, c |-> FALSE]
NoLock == [st |-> "none", owner |-> 0]
NoScratch == [st |-> "unset", v |-> <<>>]
NoLocals == [i |-> 0, j |-> 0, sum_i |-> Zero, sum_j |-> Zero,
             tracksA64 |-> <<>>, tracksB64 |-> <<>>]
NoReturn == [bmd |-> None, dm |-> None, err |-> NoError]
\* what the current call has done so far: a store through a null pointer,
\* the number of contiguous copies made, the number of stores into each
\* cell of D, the pairs (i, j) whose distance has been through both
\* compare-and-assign statements, a store into a scratch entry of a value
\* that is not smaller than the one it replaces, the number of calls of
\* free on each scratch array
NoHistory == [nullwrite |-> FALSE, copies |-> 0, writes |-> <<>>, applied |-> {},
              raised |-> FALSE, frees |-> [min_j |-> 0, min_i |-> 0]]
NoPairs == [ab |-> None, ba |-> None, ar |-> None]

\* the state of the process before any entry point is called
Quiet ==
    /\ op = "idle"
    /\ pc = "idle"
    /\ wk = [w \in Workers |-> IdleWorker]
    /\ todo = {}
    /\ lock = NoLock
    /\ min_j = NoScratch
    /\ min_i = NoScratch
    /\ D = <<>>
    /\ loc = NoLocals
    /\ heap = {}
    /\ ret = NoReturn
    /\ evals = 0
    /\ hist = NoHistory
    /\ pd = NoPairs

(***************************************************************************)
(* The metric called directly on two streamlines a and b of equal length.  *)
(***************************************************************************)
InitPair ==
    /\ HAVE_OPENMP = FALSE
    /\ nthreads = 1
    /\ \E r \in 1..MaxRows :
          /\ streamlines_a \in {<<a>> : a \in Streamlines(r)}
          /\ streamlines_b \in {<<b>> : b \in Streamlines(r)}
    /\ Quiet

PairFrame ==
    UNCHANGED <<HAVE_OPENMP, nthreads, streamlines_a, streamlines_b, op, pc, wk,
                todo, lock, min_j, min_i, D, loc, heap, ret, hist>>

\* pair_distance(a, b, rows)
PairAB ==
    /\ pd.ab = None
    /\ LET a == streamlines_a[1]
           b == streamlines_b[1]
       IN  pd' = [pd EXCEPT !.ab = min_direct_flip_dist(Data(a), Data(b), NPoints(a))]
    /\ evals' = evals + 1
    /\ PairFrame

\* pair_distance(b, a, rows)
PairBA ==
    /\ pd.ba = None
    /\ LET a == streamlines_a[1]
           b == streamlines_b[1]
       IN  pd' = [pd EXCEPT !.ba = min_direct_flip_dist(Data(b), Data(a), NPoints(a))]
    /\ evals' = evals + 1
    /\ PairFrame

\* pair_distance(a, reverse(a), rows)
PairAR ==
    /\ pd.ar = None
    /\ LET a == streamlines_a[1]
       IN  pd' = [pd EXCEPT !.ar = min_direct_flip_dist(Data(a), Data(Reverse(a)), NPoints(a))]
    /\ evals' = evals + 1
    /\ PairFrame

NextPair == PairAB \/ PairBA \/ PairAR

SpecPair == InitPair /\ [][NextPair]_vars

(***************************************************************************)
(* The metric called directly on streamlines whose distances differ by a   *)
(* factor of 2^53, so that the sums of lines 67-68 are rounded.  a lies at *)
(* the origin and b on the x axis: every difference of two coordinates is  *)
(* a coordinate of b, and its square and the root of that square are       *)
(* doubles, so that the additions of lines 67-68 are the only operations   *)
(* of lines 59-68 that round.                                              *)
(***************************************************************************)
AxisPoints == <<  <<0, 0, 0>>, <<1, 0, 0>>, <<Big, 0, 0>> >>

InitPairRounding ==
    /\ HAVE_OPENMP = FALSE
    /\ nthreads = 1
    /\ streamlines_a = << [i \in 1..RoundingRows |-> AxisPoints[1]] >>
    /\ streamlines_b \in
          {<<[i \in 1..RoundingRows |-> AxisPoints[f[i]]]>> :
              f \in [1..RoundingRows -> 1..Len(AxisPoints)]}
    /\ Quiet

SpecPairRounding == InitPairRounding /\ [][NextPair]_vars

(***************************************************************************)
(* A session: the caller holds two streamline sets and calls the entry     *)
(* points on them, one call at a time.                                     *)
(***************************************************************************)
\* the streamlines of r points the sets are drawn from, in a fixed order
Pool(r) == [k \in 1..(r + 2) |-> [i \in 1..r |-> Points[((k * i) % Len(Points)) + 1]]]

\* n consecutive streamlines of the pool, starting after the first `from`
Window(r, from, n) == [i \in 1..n |-> Pool(r)[((from + i - 1) % Len(Pool(r))) + 1]]

\* the arguments of the two _bundle_minimum_distance* routines
static_size == Len(streamlines_a)
moving_size == Len(streamlines_b)
rows == IF static_size > 0 THEN NPoints(streamlines_a[1])
        ELSE IF moving_size > 0 THEN NPoints(streamlines_b[1])
        ELSE 1

RECURSIVE Vstack(_)
Vstack(ts) == IF ts = <<>> THEN <<>> ELSE ascontiguousarray(Head(ts)) \o Vstack(Tail(ts))

\* double [:, ::1] static, moving: (size * rows, 3) contiguous arrays
static == Vstack(streamlines_a)
moving == Vstack(streamlines_b)

\* every streamline of both sets has the same number of points
SameRows == \A t \in {streamlines_a[i] : i \in 1..static_size}
                     \cup {streamlines_b[j] : j \in 1..moving_size} : NPoints(t) = rows

Init ==
    /\ HAVE_OPENMP \in BOOLEAN
    /\ nthreads \in (IF HAVE_OPENMP THEN 1..MaxWorkers ELSE {1})
    /\ \E ra \in 1..MaxRows, rb \in 1..MaxRows :
          /\ streamlines_a \in {Window(ra, 0, n) : n \in 1..MaxStatic}
          /\ streamlines_b \in {Window(rb, k, m) : k \in 0..(rb + 1), m \in 1..MaxMoving}
    /\ Quiet

Inputs == <<HAVE_OPENMP, nthreads, streamlines_a, streamlines_b>>

(***************************************************************************)
(* prange: the iterations of the outer loop are handed to the workers of   *)
(* the team in any order; a worker runs one iteration (one row i) at a     *)
(* time.  Without OpenMP the team has one worker.                          *)
(***************************************************************************)
StartTeam ==
    /\ todo' = 0..(static_size - 1)
    /\ wk' = [w \in Workers |-> IF w \in Team THEN [IdleWorker EXCEPT !.pc = "idle"]
                                ELSE IdleWorker]

\* faulty variant of Claim: the row taken stays available to the other
\* workers
ClaimKeepingRow(w, first) ==
    /\ pc = "prange"
    /\ wk[w].pc = "idle"
    /\ \E i \in todo :
          /\ todo' = todo
          /\ wk' = [wk EXCEPT ![w] = IF moving_size > 0
                                     THEN [IdleWorker EXCEPT !.pc = first, !.i = i]
                                     ELSE [IdleWorker EXCEPT !.pc = "idle"]]

\* worker w takes row i and starts its inner loop at `first`; with no
\* moving streamline the inner loop has no iteration
Claim(w, first) ==
    /\ pc = "prange"
    /\ wk[w].pc = "idle"
    /\ \E i \in todo :
          /\ todo' = todo \ {i}
          /\ wk' = [wk EXCEPT ![w] = IF moving_size > 0
                                     THEN [IdleWorker EXCEPT !.pc = first, !.i = i]
                                     ELSE [IdleWorker EXCEPT !.pc = "idle"]]

\* the end of the parallel region: every row handed out and every worker
\* through with its row (faulty variant: the workers are not waited for)
TeamDoneNoWait == todo = {}
TeamDone == todo = {} /\ \A w \in Team : wk[w].pc = "idle"

StopTeam == wk' = [w \in Workers |-> IdleWorker]

\* end of the body for (i, j): next j, or the row is finished
NextIteration(w, first) ==
    IF wk[w].j + 1 < moving_size
    THEN [IdleWorker EXCEPT !.pc = first, !.i = wk[w].i, !.j = wk[w].j + 1]
    ELSE [IdleWorker EXCEPT !.pc = "idle"]

(***************************************************************************)
(* _bundle_minimum_distance_matrix(static, moving, static_size,            *)
(*                                 moving_size, rows, D)                   *)
(***************************************************************************)
\* &buf[i * rows, 0]: a pointer to row i * rows of a contiguous (n, 3) array
\* (faulty variant: &buf[i, 0])
RowPtrNoStride(buf, i, r) == Ptr(buf, i * 3)
RowPtr(buf, i, r) == Ptr(buf, i * r * 3)

Zeros(n, m) == [i \in 0..(n - 1) |-> [j \in 0..(m - 1) |-> Zero]]

MatrixCall ==
    /\ op = "idle"
    /\ SameRows
    /\ op' = "matrix"
    /\ pc' = "prange"
    /\ D' = Zeros(static_size, moving_size)
    /\ ret' = [ret EXCEPT !.dm = None, !.err = NoError]
    /\ evals' = 0
    /\ hist' = [NoHistory EXCEPT
                  !.writes = [i \in 0..(static_size - 1) |-> [j \in 0..(moving_size - 1) |-> 0]]]
    /\ StartTeam
    /\ UNCHANGED <<Inputs, lock, min_j, min_i, loc, heap, pd>>

MatrixClaim(w) ==
    /\ op = "matrix"
    /\ Claim(w, "cell")
    /\ UNCHANGED <<Inputs, op, pc, lock, min_j, min_i, D, loc, heap, ret, evals, hist, pd>>

\* D[i, j] = min_direct_flip_dist(&static[i * rows, 0], &moving[j * rows, 0], rows)
MatrixCell(w) ==
    /\ op = "matrix"
    /\ wk[w].pc = "cell"
    /\ LET i == wk[w].i
           j == wk[w].j
       IN  /\ D' = [D EXCEPT ![i][j] = min_direct_flip_dist(RowPtr(static, i, rows),
                                                            RowPtr(moving, j, rows), rows)]
           /\ hist' = [hist EXCEPT !.writes[i][j] = @ + 1]
    /\ evals' = evals + 1
    /\ wk' = [wk EXCEPT ![w] = NextIteration(w, "cell")]
    /\ UNCHANGED <<Inputs, op, pc, todo, lock, min_j, min_i, loc, heap, ret, pd>>

\* return np.asarray(D)
MatrixReturn ==
    /\ op = "matrix"
    /\ pc = "prange"
    /\ TeamDone
    /\ StopTeam
    /\ ret' = [ret EXCEPT !.dm = D]
    /\ op' = "idle"
    /\ pc' = "idle"
    /\ UNCHANGED <<Inputs, todo, lock, min_j, min_i, D, loc, heap, evals, hist, pd>>

(***************************************************************************)
(* _bundle_minimum_distance(stat, mov, static_size, moving_size, rows)     *)
(***************************************************************************)
BmdCall ==
    /\ op = "idle"
    /\ SameRows
    /\ op' = "bmd"
    /\ pc' = "init_lock"
    /\ ret' = [ret EXCEPT !.bmd = None, !.err = NoError]
    /\ evals' = 0
    /\ hist' = NoHistory
    /\ loc' = NoLocals
    /\ UNCHANGED <<Inputs, wk, todo, lock, min_j, min_i, D, heap, pd>>

\* IF HAVE_OPENMP: openmp.omp_init_lock(&lock)
omp_init_lock(l) == IF HAVE_OPENMP THEN [st |-> "init", owner |-> 0] ELSE l

BmdInitLock ==
    /\ op = "bmd"
    /\ pc = "init_lock"
    /\ lock' = omp_init_lock(lock)
    /\ pc' = "malloc"
    /\ UNCHANGED <<Inputs, op, wk, todo, min_j, min_i, D, loc, heap, ret, evals, hist, pd>>

\* malloc(n * sizeof(double)): a block of n uninitialised doubles, or NULL
malloc(n, ok) == IF ok THEN [st |-> "alloc", v |-> [k \in 1..n |-> None]]
                 ELSE [st |-> "null", v |-> <<>>]

BmdMalloc ==
    /\ op = "bmd"
    /\ pc = "malloc"
    /\ \E okj \in BOOLEAN, oki \in BOOLEAN :
          /\ min_j' = malloc(static_size, okj)
          /\ min_i' = malloc(moving_size, oki)
          /\ heap' = (IF okj THEN {"min_j"} ELSE {}) \cup (IF oki THEN {"min_i"} ELSE {})
    /\ pc' = "fill"
    /\ UNCHANGED <<Inputs, op, wk, todo, lock, D, loc, ret, evals, hist, pd>>

\* for i in range(n): p[i] = inf
\* (faulty variant: p[i] = 0)
FillWithZero(p, n) == [p EXCEPT !.v = [k \in 1..n |-> Zero]]
Fill(p, n) == [p EXCEPT !.v = [k \in 1..n |-> inf]]

\* lines 185-189 on two blocks that are allocated, or are not stored into
\* because their size is 0; the prange starts
BmdFill ==
    /\ op = "bmd"
    /\ pc = "fill"
    /\ min_j.st = "alloc" \/ static_size = 0
    /\ min_i.st = "alloc" \/ moving_size = 0
    /\ min_j' = Fill(min_j, static_size)
    /\ min_i' = Fill(min_i, moving_size)
    /\ pc' = "prange"
    /\ StartTeam
    /\ UNCHANGED <<Inputs, op, lock, D, loc, heap, ret, evals, hist, pd>>

\* lines 185-189 when a malloc returned NULL: the loop stores through the
\* null pointer, which the operating system answers with SIGSEGV
BmdFillNull ==
    /\ op = "bmd"
    /\ pc = "fill"
    /\ (min_j.st = "null" /\ static_size > 0) \/ (min_i.st = "null" /\ moving_size > 0)
    /\ hist' = [hist EXCEPT !.nullwrite = TRUE]
    /\ pc' = "segv"
    /\ UNCHANGED <<Inputs, op, wk, todo, lock, min_j, min_i, D, loc, heap, ret, evals, pd>>

BmdClaim(w) ==
    /\ op = "bmd"
    /\ Claim(w, "calc")
    /\ UNCHANGED <<Inputs, op, pc, lock, min_j, min_i, D, loc, heap, ret, evals, hist, pd>>

\* tmp = min_direct_flip_dist(&stat[i * rows, 0], &mov[j * rows, 0], rows)
BmdCalc(w) ==
    /\ op = "bmd"
    /\ wk[w].pc = "calc"
    /\ LET i == wk[w].i
           j == wk[w].j
       IN  wk' = [wk EXCEPT ![w].tmp = min_direct_flip_dist(RowPtr(static, i, rows),
                                                            RowPtr(moving, j, rows), rows),
                            ![w].pc = "set_lock"]
    /\ evals' = evals + 1
    /\ UNCHANGED <<Inputs, op, pc, todo, lock, min_j, min_i, D, loc, heap, ret, hist, pd>>

\* openmp.omp_set_lock(&lock) can return when no thread owns the lock
\* (faulty variant: a lock that excludes nobody)
LockAlwaysFree(l) == TRUE
LockFree(l) == l.owner = 0
CanSetLock(l) == LockFree(l)

\* IF HAVE_OPENMP: openmp.omp_set_lock(&lock)
BmdSetLock(w) ==
    /\ op = "bmd"
    /\ wk[w].pc = "set_lock"
    /\ IF HAVE_OPENMP
       THEN /\ CanSetLock(lock)
            /\ lock' = [lock EXCEPT !.owner = w]
       ELSE lock' = lock
    /\ wk' = [wk EXCEPT ![w].pc = "test_j"]
    /\ UNCHANGED <<Inputs, op, pc, todo, min_j, min_i, D, loc, heap, ret, evals, hist, pd>>

\* if tmp < min_j[i]:
BmdTestJ(w) ==
    /\ op = "bmd"
    /\ wk[w].pc = "test_j"
    /\ wk' = [wk EXCEPT ![w].c = Lt(wk[w].tmp, min_j.v[wk[w].i + 1]),
                        ![w].pc = "set_j"]
    /\ UNCHANGED <<Inputs, op, pc, todo, lock, min_j, min_i, D, loc, heap, ret, evals, hist, pd>>

\*     min_j[i] = tmp
BmdSetJ(w) ==
    /\ op = "bmd"
    /\ wk[w].pc = "set_j"
    /\ min_j' = IF wk[w].c THEN [min_j EXCEPT !.v[wk[w].i + 1] = wk[w].tmp] ELSE min_j
    /\ hist' = [hist EXCEPT
                  !.raised = @ \/ (wk[w].c /\ ~Lt(wk[w].tmp, min_j.v[wk[w].i + 1]))]
    /\ wk' = [wk EXCEPT ![w].c = FALSE, ![w].pc = "test_i"]
    /\ UNCHANGED <<Inputs, op, pc, todo, lock, min_i, D, loc, heap, ret, evals, pd>>

\* faulty variant of BmdSetI: min_i[j] = tmp whatever the comparison said
BmdSetIAlways(w) ==
    /\ op = "bmd"
    /\ wk[w].pc = "set_i"
    /\ min_i' = [min_i EXCEPT !.v[wk[w].j + 1] = wk[w].tmp]
    /\ hist' = [hist EXCEPT
                  !.applied = @ \cup {<<wk[w].i, wk[w].j>>},
                  !.raised = @ \/ ~Lt(wk[w].tmp, min_i.v[wk[w].j + 1])]
    /\ wk' = [wk EXCEPT ![w].c = FALSE, ![w].pc = "unset_lock"]
    /\ UNCHANGED <<Inputs, op, pc, todo, lock, min_j, D, loc, heap, ret, evals, pd>>

\* if tmp < min_i[j]:
BmdTestI(w) ==
    /\ op = "bmd"
    /\ wk[w].pc = "test_i"
    /\ wk' = [wk EXCEPT ![w].c = Lt(wk[w].tmp, min_i.v[wk[w].j + 1]),
                        ![w].pc = "set_i"]
    /\ UNCHANGED <<Inputs, op, pc, todo, lock, min_j, min_i, D, loc, heap, ret, evals, hist, pd>>

\*     min_i[j] = tmp
BmdSetI(w) ==
    /\ op = "bmd"
    /\ wk[w].pc = "set_i"
    /\ min_i' = IF wk[w].c THEN [min_i EXCEPT !.v[wk[w].j + 1] = wk[w].tmp] ELSE min_i
    /\ hist' = [hist EXCEPT
                  !.applied = @ \cup {<<wk[w].i, wk[w].j>>},
                  !.raised = @ \/ (wk[w].c /\ ~Lt(wk[w].tmp, min_i.v[wk[w].j + 1]))]
    /\ wk' = [wk EXCEPT ![w].c = FALSE, ![w].pc = "unset_lock"]
    /\ UNCHANGED <<Inputs, op, pc, todo, lock, min_j, D, loc, heap, ret, evals, pd>>

\* faulty variant of BmdUnsetLock: the lock is kept across the next j
BmdUnsetLockKeepingLock(w) ==
    /\ op = "bmd"
    /\ wk[w].pc = "unset_lock"
    /\ wk' = [wk EXCEPT ![w] = NextIteration(w, "calc")]
    /\ UNCHANGED <<Inputs, op, pc, todo, lock, min_j, min_i, D, loc, heap, ret, evals, hist, pd>>

\* IF HAVE_OPENMP: openmp.omp_unset_lock(&lock); then the next j
BmdUnsetLock(w) ==
    /\ op = "bmd"
    /\ wk[w].pc = "unset_lock"
    /\ lock' = IF HAVE_OPENMP THEN [lock EXCEPT !.owner = 0] ELSE lock
    /\ wk' = [wk EXCEPT ![w] = NextIteration(w, "calc")]
    /\ UNCHANGED <<Inputs, op, pc, todo, min_j, min_i, D, loc, heap, ret, evals, hist, pd>>

\* the prange is over; IF HAVE_OPENMP: openmp.omp_destroy_lock(&lock)
BmdDestroyLock ==
    /\ op = "bmd"
    /\ pc = "prange"
    /\ TeamDone
    /\ StopTeam
    /\ lock' = IF HAVE_OPENMP THEN [lock EXCEPT !.st = "destroyed"] ELSE lock
    /\ pc' = "sum"
    /\ UNCHANGED <<Inputs, op, todo, min_j, min_i, D, loc, heap, ret, evals, hist, pd>>

\* for i in range(n): acc += p[i]
RECURSIVE SumLoop(_, _, _, _)
SumLoop(p, i, n, acc) == IF i >= n THEN acc ELSE SumLoop(p, i + 1, n, Add(acc, p[i + 1]))

\* lines 211-215
BmdSum ==
    /\ op = "bmd"
    /\ pc = "sum"
    /\ loc' = [loc EXCEPT !.sum_i = SumLoop(min_j.v, 0, static_size, Zero),
                          !.sum_j = SumLoop(min_i.v, 0, moving_size, Zero)]
    /\ pc' = "free"
    /\ UNCHANGED <<Inputs, op, wk, todo, lock, min_j, min_i, D, heap, ret, evals, hist, pd>>

\* faulty variant of BmdFree: free(min_j) alone
BmdFreeMinJOnly ==
    /\ op = "bmd"
    /\ pc = "free"
    /\ min_j' = [st |-> "freed", v |-> <<>>]
    /\ heap' = heap \ {"min_j"}
    /\ hist' = [hist EXCEPT !.frees.min_j = @ + 1]
    /\ pc' = "result"
    /\ UNCHANGED <<Inputs, op, wk, todo, lock, min_i, D, loc, ret, evals, pd>>

\* free(min_j); free(min_i)
BmdFree ==
    /\ op = "bmd"
    /\ pc = "free"
    /\ min_j' = [st |-> "freed", v |-> <<>>]
    /\ min_i' = [st |-> "freed", v |-> <<>>]
    /\ heap' = heap \ {"min_j", "min_i"}
    /\ hist' = [hist EXCEPT !.frees.min_j = @ + 1, !.frees.min_i = @ + 1]
    /\ pc' = "result"
    /\ UNCHANGED <<Inputs, op, wk, todo, lock, D, loc, ret, evals, pd>>

\* lines 220-222
\* (faulty variant: each sum divided by the size of the other set)
BundleDistanceSwappedSizes(sum_i, sum_j, n, m) ==
    LET dist == Add(Div(sum_i, Dbl(m)), Div(sum_j, Dbl(n)))
    IN  Mul(Mul(<<1, 4>>, dist), dist)

BundleDistance(sum_i, sum_j, n, m) ==
    LET dist == Add(Div(sum_i, Dbl(n)), Div(sum_j, Dbl(m)))
    IN  Mul(Mul(<<1, 4>>, dist), dist)

\* return dist
BmdReturn ==
    /\ op = "bmd"
    /\ pc = "result"
    /\ ret' = [ret EXCEPT !.bmd = BundleDistance(loc.sum_i, loc.sum_j, static_size, moving_size)]
    /\ op' = "idle"
    /\ pc' = "idle"
    /\ UNCHANGED <<Inputs, wk, todo, lock, min_j, min_i, D, loc, heap, evals, hist, pd>>

(***************************************************************************)
(* distance_matrix_mdf(streamlines_a, streamlines_b)                       *)
(***************************************************************************)
MdfCall ==
    /\ op = "idle"
    /\ op' = "mdf"
    /\ pc' = "alloc"
    /\ ret' = [ret EXCEPT !.dm = None, !.err = NoError]
    /\ evals' = 0
    /\ hist' = NoHistory
    /\ loc' = NoLocals
    /\ D' = <<>>
    /\ UNCHANGED <<Inputs, wk, todo, lock, min_j, min_i, heap, pd>>

\* lines 256-260: the two object arrays and the zeroed result matrix
MdfAlloc ==
    /\ op = "mdf"
    /\ pc = "alloc"
    /\ heap' = {"tracksA64", "tracksB64", "DM"}
    /\ loc' = [loc EXCEPT !.tracksA64 = [i \in 1..Len(streamlines_a) |-> 0],
                          !.tracksB64 = [j \in 1..Len(streamlines_b) |-> 0]]
    /\ D' = Zeros(Len(streamlines_a), Len(streamlines_b))
    /\ pc' = "check"
    /\ UNCHANGED <<Inputs, op, wk, todo, lock, min_j, min_i, ret, evals, hist, pd>>

\* lines 256-260 when np.zeros cannot allocate: MemoryError leaves the call
MdfAllocFail ==
    /\ op = "mdf"
    /\ pc = "alloc"
    /\ ret' = [ret EXCEPT !.err = "MemoryError"]
    /\ op' = "idle"
    /\ pc' = "idle"
    /\ UNCHANGED <<Inputs, wk, todo, lock, min_j, min_i, D, loc, heap, evals, hist, pd>>

\* if streamlines_a[0].shape[0] != streamlines_b[0].shape[0]:
\* (faulty variant: the first static streamline compared with itself)
ShapeMismatchSameSet(sa, sb) == NPoints(sa[1]) # NPoints(sa[1])
\* (faulty variant: every streamline of both sets compared with the first)
ShapeMismatchAnyStreamline(sa, sb) ==
    \E k \in 1..Len(sa), l \in 1..Len(sb) : NPoints(sa[k]) # NPoints(sa[1]) \/ NPoints(sb[l]) # NPoints(sa[1])
ShapeMismatch(sa, sb) == NPoints(sa[1]) # NPoints(sb[1])

MdfCheck ==
    /\ op = "mdf"
    /\ pc = "check"
    /\ pc' = IF ShapeMismatch(streamlines_a, streamlines_b) THEN "raise" ELSE "normalize"
    /\ UNCHANGED <<Inputs, op, wk, todo, lock, min_j, min_i, D, loc, heap, ret, evals, hist, pd>>

\* raise ValueError(msg): the frame is left and its local arrays are dropped
\* (faulty variant: the arrays stay referenced after the raise)
MdfRaiseKeepingArrays ==
    /\ op = "mdf"
    /\ pc = "raise"
    /\ ret' = [ret EXCEPT !.err = "ValueError"]
    /\ op' = "idle"
    /\ pc' = "idle"
    /\ UNCHANGED <<Inputs, wk, todo, lock, min_j, min_i, D, loc, heap, evals, hist, pd>>

MdfRaise ==
    /\ op = "mdf"
    /\ pc = "raise"
    /\ ret' = [ret EXCEPT !.err = "ValueError"]
    /\ heap' = {}
    /\ loc' = NoLocals
    /\ D' = <<>>
    /\ op' = "idle"
    /\ pc' = "idle"
    /\ UNCHANGED <<Inputs, wk, todo, lock, min_j, min_i, evals, hist, pd>>

\* faulty variant of MdfNormalize: the contiguous buffers are stored back
\* into the caller's sequences
MdfNormalizeInPlace ==
    /\ op = "mdf"
    /\ pc = "normalize"
    /\ streamlines_a' = [i \in 1..Len(streamlines_a) |-> ascontiguousarray(streamlines_a[i])]
    /\ streamlines_b' = [j \in 1..Len(streamlines_b) |-> ascontiguousarray(streamlines_b[j])]
    /\ loc' = [loc EXCEPT !.tracksA64 = streamlines_a', !.tracksB64 = streamlines_b']
    /\ hist' = [hist EXCEPT !.copies = Len(streamlines_a) + Len(streamlines_b)]
    /\ pc' = "loop"
    /\ UNCHANGED <<HAVE_OPENMP, nthreads, op, wk, todo, lock, min_j, min_i, D, heap, ret, evals, pd>>

\* lines 266-269: every streamline to a contiguous float64 buffer
MdfNormalize ==
    /\ op = "mdf"
    /\ pc = "normalize"
    /\ loc' = [loc EXCEPT
                 !.tracksA64 = [i \in 1..Len(streamlines_a) |-> ascontiguousarray(streamlines_a[i])],
                 !.tracksB64 = [j \in 1..Len(streamlines_b) |-> ascontiguousarray(streamlines_b[j])]]
    /\ hist' = [hist EXCEPT !.copies = Len(streamlines_a) + Len(streamlines_b)]
    /\ pc' = "loop"
    /\ UNCHANGED <<Inputs, op, wk, todo, lock, min_j, min_i, D, heap, ret, evals, pd>>

\* t_len = tracksA64[0].shape[0]
t_len == Len(loc.tracksA64[1]) \div 3

\* the buffers of the pair (loc.i, loc.j) hold the t_len points that
\* min_direct_flip_dist reads from each
InBounds ==
    /\ Len(loc.tracksA64[loc.i + 1]) >= 3 * t_len
    /\ Len(loc.tracksB64[loc.j + 1]) >= 3 * t_len

\* DM[i, j] = min_direct_flip_dist(t1_ptr, t2_ptr, t_len), then the next j or i
MdfCell ==
    /\ op = "mdf"
    /\ pc = "loop"
    /\ loc.i < Len(streamlines_a)
    /\ InBounds
    /\ LET t1_ptr == Ptr(loc.tracksA64[loc.i + 1], 0)
           t2_ptr == Ptr(loc.tracksB64[loc.j + 1], 0)
       IN  D' = [D EXCEPT ![loc.i][loc.j] = min_direct_flip_dist(t1_ptr, t2_ptr, t_len)]
    /\ evals' = evals + 1
    /\ loc' = IF loc.j + 1 < Len(streamlines_b)
              THEN [loc EXCEPT !.j = loc.j + 1]
              ELSE [loc EXCEPT !.j = 0, !.i = loc.i + 1]
    /\ UNCHANGED <<Inputs, op, pc, wk, todo, lock, min_j, min_i, heap, ret, hist, pd>>

\* a double that the program does not determine: it stands for every
\* double, finite or not, and NaN
AnyDouble == <<0, 0, 0>>

\* DM[i, j] = min_direct_flip_dist(t1_ptr, t2_ptr, t_len) when a buffer of the
\* pair holds fewer than t_len points: the reads of lines 63-64 past its end
\* are undefined.  They hit an unmapped page (SIGSEGV), or find whatever
\* doubles lie after each of the two buffers, and the distance computed
\* from them can be any double.
MdfCellOverrun ==
    /\ op = "mdf"
    /\ pc = "loop"
    /\ loc.i < Len(streamlines_a)
    /\ ~InBounds
    /\ \/ /\ pc' = "segv"
          /\ UNCHANGED <<D, evals, loc>>
       \/ /\ D' = [D EXCEPT ![loc.i][loc.j] = AnyDouble]
          /\ evals' = evals + 1
          /\ loc' = IF loc.j + 1 < Len(streamlines_b)
                    THEN [loc EXCEPT !.j = loc.j + 1]
                    ELSE [loc EXCEPT !.j = 0, !.i = loc.i + 1]
          /\ pc' = pc
    /\ UNCHANGED <<Inputs, op, wk, todo, lock, min_j, min_i, heap, ret, hist, pd>>

\* return DM
MdfReturn ==
    /\ op = "mdf"
    /\ pc = "loop"
    /\ loc.i >= Len(streamlines_a)
    /\ ret' = [ret EXCEPT !.dm = D]
    /\ heap' = {}
    /\ loc' = NoLocals
    /\ op' = "idle"
    /\ pc' = "idle"
    /\ UNCHANGED <<Inputs, wk, todo, lock, min_j, min_i, D, evals, hist, pd>>

(***************************************************************************)
(* The session.                                                            *)
(***************************************************************************)
Next ==
    \/ MatrixCall
    \/ \E w \in Team : MatrixClaim(w)
    \/ \E w \in Team : MatrixCell(w)
    \/ MatrixReturn
    \/ BmdCall
    \/ BmdInitLock
    \/ BmdMalloc
    \/ BmdFill
    \/ BmdFillNull
    \/ \E w \in Team : BmdClaim(w)
    \/ \E w \in Team : BmdCalc(w)
    \/ \E w \in Team : BmdSetLock(w)
    \/ \E w \in Team : BmdTestJ(w)
    \/ \E w \in Team : BmdSetJ(w)
    \/ \E w \in Team : BmdTestI(w)
    \/ \E w \in Team : BmdSetI(w)
    \/ \E w \in Team : BmdUnsetLock(w)
    \/ BmdDestroyLock
    \/ BmdSum
    \/ BmdFree
    \/ BmdReturn
    \/ MdfCall
    \/ MdfAlloc
    \/ MdfAllocFail
    \/ MdfCheck
    \/ MdfRaise
    \/ MdfNormalize
    \/ MdfCell
    \/ MdfReturn

Spec == Init /\ [][Next]_vars

(***************************************************************************)
(* distance_matrix_mdf called on sets whose last streamline may have       *)
(* another number of points than the others.                               *)
(***************************************************************************)
\* n streamlines of r points of the pool, the last one replaced by one of
\* rl points when there are two or more
Mixed(r, from, n, rl) ==
    IF n >= 2 THEN [Window(r, from, n) EXCEPT ![n] = Window(rl, from, n)[n]]
    ELSE Window(r, from, n)

InitMdf ==
    /\ HAVE_OPENMP = FALSE
    /\ nthreads = 1
    /\ \E ra \in 1..MaxRows, rb \in 1..MaxRows, la \in 1..MaxRows, lb \in 1..MaxRows :
          /\ streamlines_a \in {Mixed(ra, 0, n, la) : n \in 1..MaxStatic}
          /\ streamlines_b \in {Mixed(rb, 1, m, lb) : m \in 1..MaxMoving}
    /\ Quiet

NextMdf ==
    \/ MdfCall
    \/ MdfAlloc
    \/ MdfAllocFail
    \/ MdfCheck
    \/ MdfRaise
    \/ MdfNormalize
    \/ MdfCell
    \/ MdfCellOverrun
    \/ MdfReturn

SpecMdf == InitMdf /\ [][NextMdf]_vars

(***************************************************************************)
(* _bundle_minimum_distance called on sets either of which may be empty.   *)
(***************************************************************************)
InitBmd ==
    /\ HAVE_OPENMP \in BOOLEAN
    /\ nthreads \in (IF HAVE_OPENMP THEN 1..MaxWorkers ELSE {1})
    /\ \E r \in 1..MaxRows :
          /\ streamlines_a \in {Window(r, 0, n) : n \in 0..MaxStatic}
          /\ streamlines_b \in {Window(r, 1, m) : m \in 0..MaxMoving}
    /\ Quiet

NextBmd ==
    \/ BmdCall
    \/ BmdInitLock
    \/ BmdMalloc
    \/ BmdFill
    \/ BmdFillNull
    \/ \E w \in Team : BmdClaim(w)
    \/ \E w \in Team : BmdCalc(w)
    \/ \E w \in Team : BmdSetLock(w)
    \/ \E w \in Team : BmdTestJ(w)
    \/ \E w \in Team : BmdSetJ(w)
    \/ \E w \in Team : BmdTestI(w)
    \/ \E w \in Team : BmdSetI(w)
    \/ \E w \in Team : BmdUnsetLock(w)
    \/ BmdDestroyLock
    \/ BmdSum
    \/ BmdFree
    \/ BmdReturn

SpecBmd == InitBmd /\ [][NextBmd]_vars

(***************************************************************************)
(* Fair scheduling.  The thread that made the call and every thread of the *)
(* team is an operating-system thread: one that can take a step is not     *)
(* left out forever.  Nothing obliges the session to make another call.    *)
(***************************************************************************)
\* the statements of worker w of the team
WorkerStep(w) ==
    \/ MatrixClaim(w)
    \/ MatrixCell(w)
    \/ BmdClaim(w)
    \/ BmdCalc(w)
    \/ BmdSetLock(w)
    \/ BmdTestJ(w)
    \/ BmdSetJ(w)
    \/ BmdTestI(w)
    \/ BmdSetI(w)
    \/ BmdUnsetLock(w)

\* the statements of the calling thread inside a call
MainStep ==
    \/ MatrixReturn
    \/ BmdInitLock
    \/ BmdMalloc
    \/ BmdFill
    \/ BmdFillNull
    \/ BmdDestroyLock
    \/ BmdSum
    \/ BmdFree
    \/ BmdReturn
    \/ MdfAlloc
    \/ MdfAllocFail
    \/ MdfCheck
    \/ MdfRaise
    \/ MdfNormalize
    \/ MdfCell
    \/ MdfReturn

FairSpec == Spec /\ WF_vars(MainStep) /\ \A w \in Workers : WF_vars(WorkerStep(w))

(***************************************************************************)
(* Reference definitions used by the properties below.                     *)
(***************************************************************************)
\* the MDF distance of static streamline i and moving streamline j (from 0)
PairDistance(i, j) ==
    min_direct_flip_dist(Data(streamlines_a[i + 1]), Data(streamlines_b[j + 1]),
                         NPoints(streamlines_a[i + 1]))

RowIndex == 0..(static_size - 1)
ColIndex == 0..(moving_size - 1)

\* the least value of a non-empty set of doubles
MinOf(S) == CHOOSE x \in S : \A y \in S : Le(x, y)

\* the sum of f[0], ..., f[n - 1]
RECURSIVE SumTo(_, _)
SumTo(f, n) == IF n = 0 THEN Zero ELSE Add(SumTo(f, n - 1), f[n - 1])

\* 0.25 * (mean_i min_j M[i][j] + mean_j min_i M[i][j]) ^ 2
MatrixBundleDistance(M) ==
    LET rowmin == [i \in RowIndex |-> MinOf({M[i][j] : j \in ColIndex})]
        colmin == [j \in ColIndex |-> MinOf({M[i][j] : i \in RowIndex})]
        mean_i == Div(SumTo(rowmin, static_size), Dbl(static_size))
        mean_j == Div(SumTo(colmin, moving_size), Dbl(moving_size))
        total  == Add(mean_i, mean_j)
    IN  Mul(<<1, 4>>, Mul(total, total))

\* the two scratch arrays after one worker has run the loops of lines
\* 191-206 from pair (i, j) on, in program order
RECURSIVE SequentialScan(_, _, _, _)
SequentialScan(i, j, mj, mi) ==
    IF i >= static_size THEN <<mj, mi>>
    ELSE IF j >= moving_size THEN SequentialScan(i + 1, 0, mj, mi)
    ELSE LET tmp == PairDistance(i, j)
             mj2 == IF Lt(tmp, mj[i + 1]) THEN [mj EXCEPT ![i + 1] = tmp] ELSE mj
             mi2 == IF Lt(tmp, mi[j + 1]) THEN [mi EXCEPT ![j + 1] = tmp] ELSE mi
         IN  SequentialScan(i, j + 1, mj2, mi2)

\* the scalar a single worker computes
SequentialBundleDistance ==
    LET m == SequentialScan(0, 0, [i \in 1..static_size |-> inf], [j \in 1..moving_size |-> inf])
    IN  BundleDistance(SumLoop(m[1], 0, static_size, Zero),
                       SumLoop(m[2], 0, moving_size, Zero), static_size, moving_size)

\* the matrix a single worker fills, cell after cell in program order
RECURSIVE SequentialFill(_, _, _)
SequentialFill(i, j, M) ==
    IF i >= static_size THEN M
    ELSE IF j >= moving_size THEN SequentialFill(i + 1, 0, M)
    ELSE SequentialFill(i, j + 1, [M EXCEPT ![i][j] = PairDistance(i, j)])

SequentialMatrix == SequentialFill(0, 0, Zeros(static_size, moving_size))

\* between two calls, the caller holds the matrix (the scalar) that the last
\* matrix (scalar) call returned; ret changes only when a call starts or ends
HoldsMatrix == op = "idle" /\ ret.dm # None
HoldsScalar == op = "idle" /\ ret.bmd # None

\* the first static and the first moving streamline differ in point count
FirstPointCountsDiffer == Len(streamlines_a[1]) # Len(streamlines_b[1])

\* the workers inside the compare-and-update section of lines 200-204
InUpdate(w) == wk[w].pc \in {"test_j", "set_j", "test_i", "set_i", "unset_lock"}

(***************************************************************************)
(* C1.  Once the session holds a matrix returned by a distance-matrix      *)
(* routine and a scalar returned by _bundle_minimum_distance for the same  *)
(* two sets, the scalar is 0.25 * (mean over i of the row minima of the    *)
(* matrix + mean over j of its column minima) squared.                     *)
(***************************************************************************)
C1_ScalarAgreesWithMatrix ==
    (HoldsScalar /\ HoldsMatrix) => ret.bmd = MatrixBundleDistance(ret.dm)

\* both results are held for two sets of different sizes, the scalar is not
\* zero and the two means differ
C1_Witness ==
    /\ ret.bmd # None /\ ret.dm # None
    /\ static_size # moving_size
    /\ ret.bmd # Zero
    /\ \E i \in RowIndex : \E j, k \in ColIndex : ret.dm[i][j] # ret.dm[i][k]

(***************************************************************************)
(* C2.  A returned distance matrix has static_size rows of moving_size     *)
(* cells and cell [i][j] is the MDF distance of static streamline i and    *)
(* moving streamline j.                                                    *)
(***************************************************************************)
C2_CellsArePairDistances ==
    HoldsMatrix =>
        /\ DOMAIN ret.dm = RowIndex
        /\ \A i \in RowIndex :
              /\ DOMAIN ret.dm[i] = ColIndex
              /\ \A j \in ColIndex : ret.dm[i][j] = PairDistance(i, j)

\* a returned matrix with at least two rows and two columns that is not
\* symmetric and not constant
C2_Witness ==
    /\ ret.dm # None
    /\ static_size >= 2 /\ moving_size >= 2
    /\ ret.dm[0][1] # ret.dm[1][0]
    /\ ret.dm[0][0] # ret.dm[0][1]

(***************************************************************************)
(* C3.  Whatever the build, the size of the team and the interleaving of   *)
(* the workers, a returned scalar is the scalar and a returned matrix the  *)
(* matrix that one worker running the loops in program order produces.     *)
(***************************************************************************)
C3_ResultIndependentOfSchedule ==
    /\ HoldsScalar => ret.bmd = SequentialBundleDistance
    /\ HoldsMatrix => ret.dm = SequentialMatrix

\* both results were produced by a team of at least two workers on sets
\* where two rows give different distances to the same moving streamline
C3_Witness ==
    /\ HAVE_OPENMP /\ nthreads >= 2
    /\ ret.bmd # None /\ ret.dm # None
    /\ static_size >= 2
    /\ \E j \in ColIndex : ret.dm[0][j] # ret.dm[1][j]

(***************************************************************************)
(* C4.  In the OpenMP build a worker that is between the test of           *)
(* min_j[i] and the release of the lock owns the initialised lock, and in  *)
(* every build at most one worker is in that section.                      *)
(***************************************************************************)
C4_UpdatesUnderTheLock ==
    /\ \A w \in Team :
          (op = "bmd" /\ InUpdate(w) /\ HAVE_OPENMP) => (lock.st = "init" /\ lock.owner = w)
    /\ \A v, w \in Team : (op = "bmd" /\ InUpdate(v) /\ InUpdate(w)) => v = w

\* a worker is about to store into min_i[j] while another worker, with its
\* distance computed, waits for the lock
C4_Witness ==
    /\ op = "bmd"
    /\ \E v, w \in Team :
          /\ v # w
          /\ wk[v].pc = "set_i" /\ wk[v].c
          /\ wk[w].pc = "set_lock" /\ wk[w].j = wk[v].j

(***************************************************************************)
(* C5.  When the first streamlines of the two sets differ in their number  *)
(* of points, distance_matrix_mdf that has passed its allocations is       *)
(* raising ValueError, has evaluated no distance and returns no matrix;    *)
(* ValueError is raised in no other case.                                  *)
(***************************************************************************)
C5_ShapeMismatchRaisesFirst ==
    /\ (op = "mdf" /\ FirstPointCountsDiffer /\ pc \notin {"alloc", "check"})
          => (pc = "raise" /\ evals = 0)
    /\ FirstPointCountsDiffer => ret.dm = None
    /\ ret.err = "ValueError"
          => (FirstPointCountsDiffer /\ evals = 0 /\ ret.dm = None)

\* the call on sets of different point counts has raised ValueError
C5_Witness ==
    /\ ret.err = "ValueError"
    /\ op = "idle"
    /\ FirstPointCountsDiffer

(***************************************************************************)
(* C6 as stated: when distance_matrix_mdf raises for a shape mismatch it   *)
(* has allocated no buffer.                                                *)
(***************************************************************************)
C6_NothingAllocatedAtRaise ==
    (op = "mdf" /\ pc = "raise") => heap = {}

(***************************************************************************)
(* C6 amended.  When distance_matrix_mdf raises for a shape mismatch it    *)
(* holds exactly the two object arrays and the zeroed result matrix, has   *)
(* made no contiguous copy of a streamline and has evaluated no distance;  *)
(* once ValueError has left the call nothing it allocated is still held.   *)
(***************************************************************************)
C6_OnlyEmptyArraysAtRaise ==
    /\ (op = "mdf" /\ pc = "raise")
          => (heap = {"tracksA64", "tracksB64", "DM"} /\ hist.copies = 0 /\ evals = 0)
    /\ ret.err = "ValueError" => (heap = {} /\ ret.dm = None)

\* the call is raising for a mismatch, with its arrays allocated
C6_Witness ==
    /\ op = "mdf" /\ pc = "raise"
    /\ FirstPointCountsDiffer
    /\ "DM" \in heap

(***************************************************************************)
(* C7 as stated: when the allocation of a scratch array fails,             *)
(* _bundle_minimum_distance stores nothing through the null pointer, does  *)
(* not enter the parallel loop and ends with an allocation error.          *)
(***************************************************************************)
C7_AllocationFailureIsRaised ==
    (op = "bmd" /\ (min_j.st = "null" \/ min_i.st = "null"))
        => (~hist.nullwrite /\ pc \in {"fill", "raise"})

(***************************************************************************)
(* C8.  The distance of a streamline to its own reversal is 0.             *)
(***************************************************************************)
C8_ReverseIsAtDistanceZero ==
    pd.ar # None => pd.ar = Zero

\* the distance to the reversal was computed for a streamline that differs
\* from its reversal
C8_Witness ==
    /\ pd.ar # None
    /\ NPoints(streamlines_a[1]) >= 2
    /\ Reverse(streamlines_a[1]) # streamlines_a[1]

(***************************************************************************)
(* C9.  The distance from a to b is the distance from b to a: the two      *)
(* calls return the same double.  The code does not keep this for          *)
(* streamlines of three points or more: the flipped terms of (b, a) are    *)
(* those of (a, b) added in the opposite order, and the rounded sums       *)
(* differ.                                                                 *)
(***************************************************************************)
C9_PairDistanceCommutes ==
    (pd.ab # None /\ pd.ba # None) => pd.ab = pd.ba

(***************************************************************************)
(* C10.  Every distance a worker has computed, every cell of a matrix      *)
(* being filled or returned and every returned scalar is >= 0.             *)
(***************************************************************************)
C10_NonNegative ==
    /\ \A w \in Team : Le(Zero, wk[w].tmp)
    /\ \A i \in DOMAIN D : \A j \in DOMAIN D[i] : Le(Zero, D[i][j])
    /\ ret.dm # None => \A i \in RowIndex : \A j \in ColIndex : Le(Zero, ret.dm[i][j])
    /\ ret.bmd # None => Le(Zero, ret.bmd)

\* a matrix with a positive cell and a positive scalar have been returned
C10_Witness ==
    /\ ret.bmd # None /\ ret.dm # None
    /\ Lt(Zero, ret.bmd)
    /\ \E i \in RowIndex : \E j \in ColIndex : Lt(Zero, ret.dm[i][j])

(***************************************************************************)
(* C11.  No step of any entry point changes the caller's two sets: the     *)
(* static and the moving streamlines are the same before and after every   *)
(* step, whether the call returns a result or raises.                      *)
(***************************************************************************)
C11_InputsAreNeverWritten ==
    [][streamlines_a' = streamlines_a /\ streamlines_b' = streamlines_b]_vars

\* distance_matrix_mdf, which copies every streamline, has returned after
\* the other two entry points did
C11_Witness ==
    /\ op = "idle"
    /\ ret.bmd # None /\ ret.dm # None
    /\ hist.copies = static_size + moving_size

\* the Euclidean distance of two points
PointDistance(p, q) ==
    sqrt((p[1] - q[1]) * (p[1] - q[1]) + (p[2] - q[2]) * (p[2] - q[2])
         + (p[3] - q[3]) * (p[3] - q[3]))

\* the sum over the first n points of the distances of a[i] to b[i]
RECURSIVE SumOfPointDistances(_, _, _)
SumOfPointDistances(a, b, n) ==
    IF n = 0 THEN 0 ELSE SumOfPointDistances(a, b, n - 1) + PointDistance(a[n], b[n])

\* the mean over the points of a of the distance to the same point of b
MeanPointDistance(a, b) == Div(Dbl(SumOfPointDistances(a, b, Len(a))), Dbl(Len(a)))

DirectMean == MeanPointDistance(streamlines_a[1], streamlines_b[1])
FlippedMean == MeanPointDistance(streamlines_a[1], Reverse(streamlines_b[1]))

(***************************************************************************)
(* C12.  The distance computed for a and b is the direct mean (point i of  *)
(* a against point i of b) when the direct mean is at most the flipped     *)
(* mean (point i of a against point rows - 1 - i of b), and the flipped    *)
(* mean otherwise.                                                         *)
(***************************************************************************)
C12_SmallerOfDirectAndFlipped ==
    pd.ab # None =>
        /\ Le(DirectMean, FlippedMean) => pd.ab = DirectMean
        /\ Lt(FlippedMean, DirectMean) => pd.ab = FlippedMean

\* the distance was computed for two streamlines whose flipped mean is
\* positive and smaller than the direct mean
C12_Witness ==
    /\ pd.ab # None
    /\ Lt(FlippedMean, DirectMean)
    /\ Lt(Zero, FlippedMean)

(***************************************************************************)
(* C13.  While _bundle_minimum_distance_matrix fills D, no two workers are *)
(* on the same row, every cell has been stored into at most once, the cell *)
(* a worker is about to store into has not been stored into, no worker     *)
(* owns a lock, and when the team has finished and when the matrix is      *)
(* returned every cell has been stored into exactly once.                  *)
(***************************************************************************)
C13_EachCellWrittenOnce ==
    /\ op = "matrix" =>
          /\ \A v, w \in Team :
                (wk[v].pc = "cell" /\ wk[w].pc = "cell" /\ wk[v].i = wk[w].i) => v = w
          /\ \A i \in RowIndex : \A j \in ColIndex : hist.writes[i][j] <= 1
          /\ \A w \in Team : wk[w].pc = "cell" => hist.writes[wk[w].i][wk[w].j] = 0
          /\ lock.owner = 0
          /\ TeamDone => \A i \in RowIndex : \A j \in ColIndex : hist.writes[i][j] = 1
    /\ (HoldsMatrix /\ hist.writes # <<>>)
          => \A i \in RowIndex : \A j \in ColIndex : hist.writes[i][j] = 1

\* two workers are filling two different rows, one of them with its first
\* cell stored and its second cell still to store
C13_Witness ==
    /\ op = "matrix"
    /\ \E v, w \in Team :
          /\ wk[v].pc = "cell" /\ wk[w].pc = "cell"
          /\ wk[v].i # wk[w].i
          /\ wk[v].j = 1
          /\ hist.writes[wk[v].i][0] = 1

(***************************************************************************)
(* C14.  In _bundle_minimum_distance a worker that has taken a row and is  *)
(* evaluating the distance of a pair, or waiting for the lock with the     *)
(* distance computed, or between rows, does not own the lock; the owner of *)
(* the lock is between the test of min_j[i] and the release.               *)
(***************************************************************************)
C14_NoLockWhileComputing ==
    op = "bmd" =>
        \A w \in Team :
            /\ wk[w].pc \in {"idle", "calc", "set_lock"} => lock.owner # w
            /\ lock.owner = w => InUpdate(w)

\* a worker that has already updated for its first pair is evaluating its
\* second pair while another worker owns the lock
C14_Witness ==
    /\ op = "bmd"
    /\ \E v, w \in Team :
          /\ wk[v].pc = "calc" /\ wk[v].j = 1
          /\ lock.owner = w /\ wk[w].pc = "test_i"

\* the least value of a set of doubles, the sentinel when the set is empty
LeastOrInf(S) == IF S = {} THEN inf ELSE MinOf(S)

\* no worker is between the test of min_j[i] and the release of the lock
NoUpdateInProgress == \A w \in Team : ~InUpdate(w)

(***************************************************************************)
(* C15.  During the parallel loop of _bundle_minimum_distance, whenever no *)
(* worker is inside the critical section, min_j[i] is the least            *)
(* PairDistance(i, j) over the pairs applied so far and min_i[j] likewise, *)
(* an entry with no applied pair is the sentinel; and no store of the call *)
(* has replaced an entry by a value that is not smaller.                   *)
(***************************************************************************)
C15_RunningMinima ==
    /\ (op = "bmd" /\ pc = "prange" /\ NoUpdateInProgress) =>
          /\ \A i \in RowIndex :
                min_j.v[i + 1] = LeastOrInf({PairDistance(i, j) :
                                               j \in {c \in ColIndex : <<i, c>> \in hist.applied}})
          /\ \A j \in ColIndex :
                min_i.v[j + 1] = LeastOrInf({PairDistance(i, j) :
                                               i \in {r \in RowIndex : <<r, j>> \in hist.applied}})
    /\ ~hist.raised

\* outside any critical section, a row has one of its two pairs applied, a
\* column still holds the sentinel and another column holds a distance that
\* replaced a larger one
C15_Witness ==
    /\ op = "bmd" /\ pc = "prange" /\ NoUpdateInProgress
    /\ static_size >= 2 /\ moving_size >= 2
    /\ \E i \in RowIndex : \E j, k \in ColIndex : <<i, j>> \in hist.applied /\ <<i, k>> \notin hist.applied
    /\ \E j \in ColIndex : min_i.v[j + 1] = inf
    /\ \E j \in ColIndex :
          /\ <<0, j>> \in hist.applied /\ <<1, j>> \in hist.applied
          /\ PairDistance(0, j) # PairDistance(1, j)
          /\ min_i.v[j + 1] # inf

\* every pair of a static and a moving streamline
AllPairs == RowIndex \X ColIndex

(***************************************************************************)
(* C16.  When _bundle_minimum_distance is at its summation loops or past   *)
(* them, every row has been handed out, no worker is running, each of the  *)
(* static_size * moving_size pairs has been evaluated once and applied,    *)
(* nobody owns the lock and, in the OpenMP build, the lock is destroyed.   *)
(***************************************************************************)
C16_SummationAfterTheJoin ==
    (op = "bmd" /\ pc \in {"sum", "free", "result"}) =>
        /\ todo = {}
        /\ \A w \in Workers : wk[w].pc = "off"
        /\ hist.applied = AllPairs
        /\ evals = static_size * moving_size
        /\ lock.owner = 0
        /\ HAVE_OPENMP => lock.st = "destroyed"

\* the summation is about to start after a team of two or more workers
\* with a lock went through at least four pairs
C16_Witness ==
    /\ op = "bmd" /\ pc = "sum"
    /\ HAVE_OPENMP /\ nthreads >= 2
    /\ static_size >= 2 /\ moving_size >= 2
    /\ lock.st = "destroyed"

(***************************************************************************)
(* C17.  _bundle_minimum_distance frees each of min_j and min_i once,      *)
(* after the summation loops and before the return: while it fills, scans  *)
(* or sums them both are live and neither has been freed; when it is about *)
(* to return both have been freed once, nothing it allocated is live and   *)
(* no worker is running; outside a call no scratch array is live.          *)
(***************************************************************************)
C17_ScratchFreedOnce ==
    /\ (op = "bmd" /\ pc \in {"prange", "sum", "free"}) =>
          /\ min_j.st = "alloc" /\ min_i.st = "alloc"
          /\ heap = {"min_j", "min_i"}
          /\ hist.frees = [min_j |-> 0, min_i |-> 0]
    /\ (op = "bmd" /\ pc = "result") =>
          /\ min_j.st = "freed" /\ min_i.st = "freed"
          /\ heap = {}
          /\ hist.frees = [min_j |-> 1, min_i |-> 1]
          /\ \A w \in Workers : wk[w].pc = "off"
    /\ op # "bmd" =>
          /\ heap \cap {"min_j", "min_i"} = {}
          /\ min_j.st \in {"unset", "freed"} /\ min_i.st \in {"unset", "freed"}
          /\ hist.frees.min_j <= 1 /\ hist.frees.min_i <= 1

\* the call is about to return a positive scalar with both arrays freed
C17_Witness ==
    /\ op = "bmd" /\ pc = "result"
    /\ hist.frees = [min_j |-> 1, min_i |-> 1]
    /\ loc.sum_i # Zero
    /\ static_size >= 2

(***************************************************************************)
(* C18 as stated, for _bundle_minimum_distance and in the form of a        *)
(* property of finite runs: a call that has not returned can take a step,  *)
(* so that under fair scheduling it goes on until it returns its result.   *)
(***************************************************************************)
C18_CallInProgressCanStep ==
    op = "bmd" => ENABLED Next

\* the first n points of streamline t
Prefix(t, n) == [k \in 1..n |-> t[k]]

\* the MDF distance of the first NPoints(streamlines_a[1]) points of static
\* streamline i and of moving streamline j (from 0)
PrefixDistance(i, j) ==
    LET n == NPoints(streamlines_a[1])
        a == Prefix(streamlines_a[i + 1], n)
        b == Prefix(streamlines_b[j + 1], n)
        direct  == MeanPointDistance(a, b)
        flipped == MeanPointDistance(a, Reverse(b))
    IN  IF Le(direct, flipped) THEN direct ELSE flipped

(***************************************************************************)
(* C19.  distance_matrix_mdf looks at the first streamline of each set     *)
(* only.  It raises ValueError, with no distance evaluated and no matrix   *)
(* returned, exactly when these two differ in point count.  When they      *)
(* agree it does not raise, whatever the point counts of the later         *)
(* streamlines: it goes on to the loops with t_len the point count of the  *)
(* first static streamline, and each cell of a returned matrix whose two   *)
(* streamlines have at least t_len points is the MDF distance of their     *)
(* first t_len points.                                                     *)
(***************************************************************************)
C19_OnlyFirstStreamlinesChecked ==
    /\ ret.err = "ValueError" => (FirstPointCountsDiffer /\ evals = 0)
    /\ (FirstPointCountsDiffer /\ op = "mdf" /\ pc \notin {"alloc", "check"})
          => (pc = "raise" /\ evals = 0)
    /\ FirstPointCountsDiffer => ret.dm = None
    /\ (~FirstPointCountsDiffer /\ op = "mdf" /\ pc \notin {"alloc", "check"})
          => pc \in {"normalize", "loop", "segv"}
    /\ (op = "mdf" /\ pc = "loop") => t_len = NPoints(streamlines_a[1])
    /\ ret.dm # None =>
          \A i \in RowIndex : \A j \in ColIndex :
              (/\ NPoints(streamlines_a[i + 1]) >= NPoints(streamlines_a[1])
               /\ NPoints(streamlines_b[j + 1]) >= NPoints(streamlines_a[1]))
                  => ret.dm[i][j] = PrefixDistance(i, j)

\* a matrix was returned for sets whose first streamlines agree, with a
\* later static and a later moving streamline that have more points than
\* the first, at a positive distance
C19_Witness ==
    /\ op = "idle" /\ ret.dm # None /\ ret.err = NoError
    /\ \E k \in 1..static_size, l \in 1..moving_size :
          /\ NPoints(streamlines_a[k]) > NPoints(streamlines_a[1])
          /\ NPoints(streamlines_b[l]) > NPoints(streamlines_b[1])
          /\ Lt(Zero, ret.dm[k - 1][l - 1])

\* a double that is neither an infinity, nor the sentinel, nor NaN
Finite(x) == x[2] # 0

(***************************************************************************)
(* C20.  When the summation loops of _bundle_minimum_distance begin on two *)
(* non-empty sets, every min_j[i] is the distance of some pair of row i    *)
(* and every min_i[j] the distance of some pair of column j, none is the   *)
(* sentinel, and the two sums and the returned scalar are finite.  When    *)
(* one set is empty every entry of the scratch array of the other set is   *)
(* still the sentinel when the summation begins, and the scalar returned   *)
(* for an empty set is not a number.                                       *)
(***************************************************************************)
C20_SentinelOnlyForEmptySets ==
    /\ (op = "bmd" /\ pc = "sum" /\ static_size >= 1 /\ moving_size >= 1) =>
          /\ \A i \in RowIndex :
                min_j.v[i + 1] # inf /\ \E j \in ColIndex : min_j.v[i + 1] = PairDistance(i, j)
          /\ \A j \in ColIndex :
                min_i.v[j + 1] # inf /\ \E i \in RowIndex : min_i.v[j + 1] = PairDistance(i, j)
    /\ (op = "bmd" /\ pc \in {"free", "result"} /\ static_size >= 1 /\ moving_size >= 1)
          => (Finite(loc.sum_i) /\ Finite(loc.sum_j))
    /\ (ret.bmd # None /\ static_size >= 1 /\ moving_size >= 1) => Finite(ret.bmd)
    /\ (op = "bmd" /\ pc = "sum" /\ (static_size = 0 \/ moving_size = 0)) =>
          /\ \A i \in RowIndex : min_j.v[i + 1] = inf
          /\ \A j \in ColIndex : min_i.v[j + 1] = inf
          /\ evals = 0
    /\ (ret.bmd # None /\ (static_size = 0 \/ moving_size = 0)) => IsNaN(ret.bmd)

\* a scalar that is not a number was returned for an empty static set and
\* two moving streamlines
C20_Witness ==
    /\ op = "idle" /\ ret.bmd # None
    /\ static_size = 0 /\ moving_size >= 2
    /\ IsNaN(ret.bmd)

=============================================================================
